---- MODULE Spec2Model ----
(***************************************************************************)
(* Model of mcio_remote.network.Controller: the caller threads, the        *)
(* ActionThread draining _action_queue, the StateThread feeding the        *)
(* one-slot _LatestItemQueue, and the sequence counters they share.        *)
(* Python statements that touch shared state are separate steps, so that   *)
(* every interleaving the interpreter can produce is a behaviour.          *)
(***************************************************************************)
EXTENDS Integers, Sequences, FiniteSets, TLC

\* ------------------------------------------------------------------ bounds
MaxActions == 2      \* send_action / send_and_recv calls started per behaviour
MaxRecv == 3         \* messages the state socket delivers per behaviour (Spec)
MaxPuts == 4         \* messages the state socket delivers per behaviour (SpecSlot)
MaxTerminated == 2   \* recv calls that end on the closed transport (SpecTeardown)
MaxStale == 258      \* messages delivered by a restarted simulator (SpecStale)
StaleEmitted == 3    \* stale observations emitted before the matching one (SpecSkips)
MaxSequence == 3     \* sequences of a peer that never stops wrap above it (SpecArrive)

\* ------------------------------------------------------- program constants
None == -1                   \* Python None for the Optional[int] counters
SlotMaxSize == 1             \* _LatestItemQueue: super().__init__(maxsize=1)
ActionQueueMaxSize == 0      \* _action_queue = queue.Queue(): no maxsize, unbounded
SkipBudget == 256            \* the documented default skip budget
MCIO_PROTOCOL_VERSION == 0   \* network.MCIO_PROTOCOL_VERSION
GLFW_CURSOR_NORMAL == 212993     \* glfw.CURSOR_NORMAL
GLFW_CURSOR_DISABLED == 212995   \* glfw.CURSOR_DISABLED

AllCallers == {"c1", "c2"}   \* application threads
Objs == {"a", "b"}           \* ActionPacket objects the application holds

VARIABLES
    action_sequence_last_queued,    \* Controller.action_sequence_last_queued
    state_sequence_last_received,   \* Controller.state_sequence_last_received
    state_sequence_last_processed,  \* Controller.state_sequence_last_processed
    running,                        \* Controller._running (threading.Event)
    action_queue,                   \* Controller._action_queue (queue.Queue)
    state_queue,                    \* Controller._state_queue (_LatestItemQueue)
    sequence,                       \* ActionPacket.sequence of each object
    pc,                             \* position of every thread
    caller,                         \* locals of each application thread
    at_action,                      \* ActionThread local: action
    st,                             \* StateThread locals: state, dropped, x
    sim,                            \* the peer: messages delivered, last sequence
    wire,                           \* history: packets handed to the action socket
    assigned,                       \* history: sequences assigned by send_action
    slot_log,                       \* history: what became of each value put
    run,                            \* history: puts completed since the last get
    last_get,                       \* history: the last get and the run it ended
    shutdown_returned,              \* history: a shutdown() call has returned
    match_sequences,                \* Controller.match_sequences
    ctor,                           \* history: the constructor call, its argument and steps
    drops,                          \* history: what _track_dropped("Process") reported
    conn,                           \* _Connection: closed, and recv calls ended on it since
    config_file,                    \* launcher: the file mcio.yaml of one mcio_dir
    installer,                      \* launcher: the Installer objects
    launcher,                       \* launcher: the last Launcher(...) call and its outcome
    installed                       \* history: the version each install() recorded

launcher_vars == <<config_file, installer, launcher, installed>>

controller_vars ==
    <<action_sequence_last_queued, state_sequence_last_received,
      state_sequence_last_processed, running, action_queue, state_queue,
      sequence, pc, caller, at_action, st, sim, wire, assigned, slot_log,
      run, last_get, shutdown_returned, match_sequences, ctor, drops, conn>>

vars == <<controller_vars, launcher_vars>>

\* Python values of a field that can hold an int or a tuple of one int; a
\* tuple is equal to no int.
PyNone == [type |-> "NoneType", value |-> None]
PyInt(v) == [type |-> "int", value |-> v]
PyTuple(v) == [type |-> "tuple", value |-> v]

\* StatePacket: `cursor_mode: int = glfw.CURSOR_NORMAL,` ends with a comma, so
\* the default of the field is the tuple (glfw.CURSOR_NORMAL,).
CursorModeDefault == PyTuple(GLFW_CURSOR_NORMAL)

NoState == [version |-> None, sequence |-> None, last_action_sequence |-> None,
            cursor_mode |-> PyNone, id |-> 0]
NoAction == [obj |-> "none", id |-> 0, enq_sequence |-> 0]
NoCall == [op |-> "none", obj |-> "none", tmp |-> 0, state |-> NoState,
           my_sequence |-> 0, skips |-> 0, returned |-> FALSE]

\* The observations whose way through the slot is recorded, when it is recorded.
TrackedIds == 1..(MaxPuts + 1)

\* ----------------------------------------------------------- queue.Queue
\* queue.Queue.put blocks while maxsize > 0 and the queue holds maxsize items.
QueueFull(q, maxsize) == maxsize > 0 /\ Len(q) >= maxsize

\* queue.Queue is FIFO: _put appends on the right, _get pops on the left.
QueueGet_Peek(q) == [item |-> Head(q), rest |-> q]
QueueGet_Lifo(q) == [item |-> q[Len(q)], rest |-> SubSeq(q, 1, Len(q) - 1)]
QueueGet(q) == [item |-> Head(q), rest |-> Tail(q)]

QueuePut(q, item) == Append(q, item)

\* self._action_queue = queue.Queue(): put waits while the queue is full,
\* which a queue without maxsize never is.
ActionQueueFull_Bounded(q) == QueueFull(q, SlotMaxSize)
ActionQueueFull(q) == QueueFull(q, ActionQueueMaxSize)

\* ------------------------------------------------------------ Controller
\* _Connection.__init__ binds the action socket, connects the state socket
\* and sleeps; Controller.__init__ then starts the ActionThread and the
\* StateThread. The steps in the order of the code.
InitSteps_ThreadsFirst ==
    <<"start ActionThread", "start StateThread", "bind", "connect", "settle">>
InitSteps ==
    <<"bind", "connect", "settle", "start ActionThread", "start StateThread">>

\* Controller.__init__, the attributes: self.match_sequences is set to True
\* whatever the argument match_sequences is.
ControllerFields ==
    /\ action_sequence_last_queued = 0
    /\ state_sequence_last_received = None
    /\ state_sequence_last_processed = None
    /\ match_sequences = TRUE
    /\ running = TRUE
    /\ action_queue = <<>>
    /\ state_queue = <<>>
    /\ sequence = [o \in Objs |-> 0]
    /\ caller = [t \in AllCallers |-> NoCall]
    /\ at_action = NoAction
    /\ st = [state |-> NoState, dropped |-> FALSE, x |-> 0]
    /\ sim = [n |-> 0, sequence |-> 0]
    /\ wire = <<>>
    /\ assigned = <<>>
    /\ run = <<>>
    /\ last_get = [id |-> 0, run |-> <<>>]
    /\ shutdown_returned = FALSE
    /\ conn = [closed |-> FALSE, terminated |-> 0]

\* Controller(match_sequences=...) has returned: both workers are started.
ControllerNew(match_sequences_arg) ==
    /\ ControllerFields
    /\ pc = [t \in AllCallers \cup {"ActionThread", "StateThread"} |->
                IF t = "ActionThread" THEN "at_get"
                ELSE IF t = "StateThread" THEN "st_recv" ELSE "idle"]
    /\ ctor = [match_sequences |-> match_sequences_arg, events |-> InitSteps]

\* Controller.__init__: the state after construction with the default
\* arguments, both workers started.
Constructed == ControllerNew(TRUE)

\* Controller.__init__ has been entered and no step of it is done yet.
Unconstructed ==
    /\ ControllerFields
    /\ pc = [t \in AllCallers \cup {"ActionThread", "StateThread"} |->
                IF t \in AllCallers THEN "init" ELSE "not_started"]
    /\ ctor = [match_sequences |-> TRUE, events |-> <<>>]

\* Nothing of what recv_state reports is recorded / it is recorded from now on.
\* Recorded with the reports: the values put has discarded since the last
\* get and since the last return of recv_state, and the number discarded
\* between the last two gets.
NoDrops == [on |-> FALSE, reports |-> <<>>, total |-> 0, since_get |-> 0,
            since_return |-> 0, between_gets |-> 0,
            recv_on |-> FALSE, recv_reports |-> <<>>]
RecordDrops == [NoDrops EXCEPT !.on = TRUE]
\* Recorded for both tags of _track_dropped, "Process" and "Recv".
RecordBothDrops == [RecordDrops EXCEPT !.recv_on = TRUE]

\* The history of the slot is recorded only where slot_log has a domain.
Recording == DOMAIN slot_log # {}

\* ------------------------------------------------- application threads
InSendAction(t) == pc[t] \in {"sa_load", "sa_store", "sa_read", "sa_assign"}

\* send_action / send_and_recv calls started so far
Started == Len(assigned) + Cardinality({t \in AllCallers : InSendAction(t)})

\* entries put on _action_queue so far
Enqueued == Len(wire) + Len(action_queue) + (IF at_action = NoAction THEN 0 ELSE 1)

Return(t) == [caller EXCEPT ![t].returned = TRUE]

\* Controller.__init__ from self._mcio_conn = _Connection() on: the thread
\* that constructs the Controller does the next step of InitSteps; a started
\* worker enters its loop, and after the last step __init__ returns.
Construct(t) ==
    /\ pc[t] = "init"
    /\ Len(ctor.events) < Len(InitSteps)
    /\ LET e == InitSteps[Len(ctor.events) + 1] IN
         /\ ctor' = [ctor EXCEPT !.events = Append(@, e)]
         /\ pc' = [th \in DOMAIN pc |->
                     IF th = "ActionThread" /\ e = "start ActionThread"
                       THEN "at_get"
                     ELSE IF th = "StateThread" /\ e = "start StateThread"
                       THEN "st_recv"
                     ELSE IF th = t /\ Len(ctor.events) + 1 = Len(InitSteps)
                       THEN "idle"
                     ELSE pc[th]]
    /\ UNCHANGED <<action_sequence_last_queued, state_sequence_last_received,
                   state_sequence_last_processed, running, action_queue,
                   state_queue, sequence, caller, at_action, st, sim, wire,
                   assigned, slot_log, run, last_get, shutdown_returned,
                   match_sequences, drops, conn,
                   launcher_vars>>

\* The application calls a Controller method with one of its ActionPacket objects.
CallStart(t, op, obj) ==
    /\ pc[t] = "idle"
    /\ op # "recv_state" => Started < MaxActions
    /\ caller' = [caller EXCEPT ![t] = [NoCall EXCEPT !.op = op, !.obj = obj]]
    /\ pc' = [pc EXCEPT ![t] = IF op = "recv_state" THEN "rs_get" ELSE "sa_load"]
    /\ UNCHANGED <<action_sequence_last_queued, state_sequence_last_received,
                   state_sequence_last_processed, running, action_queue,
                   state_queue, sequence, at_action, st, sim, wire, assigned,
                   slot_log, run, last_get, shutdown_returned,
                   match_sequences, ctor, drops, conn,
                   launcher_vars>>

\* Gym.reset: self.ctrl = Controller(match_sequences=self.match_sequences),
\* and nothing after it: no action is sent and nothing is returned.
GymReset(t) ==
    /\ pc[t] = "gym"
    /\ caller' = [caller EXCEPT ![t] = [NoCall EXCEPT !.op = "reset"]]
    /\ pc' = [pc EXCEPT ![t] = "init"]
    /\ UNCHANGED <<action_sequence_last_queued, state_sequence_last_received,
                   state_sequence_last_processed, running, action_queue,
                   state_queue, sequence, at_action, st, sim, wire, assigned,
                   slot_log, run, last_get, shutdown_returned,
                   match_sequences, ctor, drops, conn,
                   launcher_vars>>

\* Gym.step: state = self.ctrl.send_and_recv(action); the assignments to
\* _last_action and _last_state and render() touch nothing of the Controller.
GymStep(t, obj) == CallStart(t, "step", obj)

\* self.action_sequence_last_queued += 1: the read of the attribute
SendActionLoad(t) ==
    /\ pc[t] = "sa_load"
    /\ caller' = [caller EXCEPT ![t].tmp = action_sequence_last_queued]
    /\ pc' = [pc EXCEPT ![t] = "sa_store"]
    /\ UNCHANGED <<action_sequence_last_queued, state_sequence_last_received,
                   state_sequence_last_processed, running, action_queue,
                   state_queue, sequence, at_action, st, sim, wire, assigned,
                   slot_log, run, last_get, shutdown_returned,
                   match_sequences, ctor, drops, conn,
                   launcher_vars>>

\* self.action_sequence_last_queued += 1: the write of the attribute
SendActionStore(t) ==
    /\ pc[t] = "sa_store"
    /\ action_sequence_last_queued' = caller[t].tmp + 1
    /\ pc' = [pc EXCEPT ![t] = "sa_read"]
    /\ UNCHANGED <<state_sequence_last_received, state_sequence_last_processed,
                   running, action_queue, state_queue, sequence, caller,
                   at_action, st, sim, wire, assigned, slot_log, run, last_get,
                   shutdown_returned,
                   match_sequences, ctor, drops, conn,
                   launcher_vars>>

\* action.sequence = self.action_sequence_last_queued: the read of the counter
SendActionRead(t) ==
    /\ pc[t] = "sa_read"
    /\ caller' = [caller EXCEPT ![t].tmp = action_sequence_last_queued]
    /\ pc' = [pc EXCEPT ![t] = "sa_assign"]
    /\ UNCHANGED <<action_sequence_last_queued, state_sequence_last_received,
                   state_sequence_last_processed, running, action_queue,
                   state_queue, sequence, at_action, st, sim, wire, assigned,
                   slot_log, run, last_get, shutdown_returned,
                   match_sequences, ctor, drops, conn,
                   launcher_vars>>

\* action.sequence = self.action_sequence_last_queued: the write of the field
SendActionAssign(t) ==
    /\ pc[t] = "sa_assign"
    /\ sequence' = [sequence EXCEPT ![caller[t].obj] = caller[t].tmp]
    /\ caller' = [caller EXCEPT ![t].my_sequence = caller[t].tmp]
    /\ assigned' = Append(assigned, caller[t].tmp)
    /\ pc' = [pc EXCEPT ![t] = "sa_put"]
    /\ UNCHANGED <<action_sequence_last_queued, state_sequence_last_received,
                   state_sequence_last_processed, running, action_queue,
                   state_queue, at_action, st, sim, wire, slot_log, run,
                   last_get, shutdown_returned,
                   match_sequences, ctor, drops, conn,
                   launcher_vars>>

\* self._action_queue.put(action): the queue holds a reference to the object
SendActionPut(t) ==
    /\ pc[t] = "sa_put"
    /\ ~ActionQueueFull(action_queue)
    /\ action_queue' = QueuePut(action_queue,
                                [obj |-> caller[t].obj, id |-> Enqueued + 1,
                                 enq_sequence |-> caller[t].my_sequence])
    /\ IF caller[t].op = "send_action"
         THEN /\ pc' = [pc EXCEPT ![t] = "idle"]
              /\ caller' = Return(t)
         ELSE /\ pc' = [pc EXCEPT ![t] = "rs_get"]
              /\ UNCHANGED caller
    /\ UNCHANGED <<action_sequence_last_queued, state_sequence_last_received,
                   state_sequence_last_processed, running, state_queue,
                   sequence, at_action, st, sim, wire, assigned, slot_log, run,
                   last_get, shutdown_returned,
                   match_sequences, ctor, drops, conn,
                   launcher_vars>>

SlotLogGet(id) ==
    IF id \in DOMAIN slot_log
      THEN [slot_log EXCEPT ![id] = IF @ = "stored" THEN "returned" ELSE "twice"]
      ELSE slot_log

\* get has emptied the slot: the discards since the last get are complete.
DropsGet ==
    IF drops.on
      THEN [drops EXCEPT !.between_gets = drops.since_get, !.since_get = 0]
      ELSE drops

\* recv_state: state = self._state_queue.get(), blocking while the slot is empty
RecvStateGet(t) ==
    /\ pc[t] = "rs_get"
    /\ state_queue # <<>>
    /\ LET g == QueueGet(state_queue) IN
         /\ state_queue' = g.rest
         /\ caller' = [caller EXCEPT ![t].state = g.item]
         /\ slot_log' = SlotLogGet(g.item.id)
         /\ last_get' = IF Recording THEN [id |-> g.item.id, run |-> run]
                                      ELSE last_get
    /\ run' = <<>>
    /\ drops' = DropsGet
    /\ pc' = [pc EXCEPT ![t] = "rs_track"]
    /\ UNCHANGED <<action_sequence_last_queued, state_sequence_last_received,
                   state_sequence_last_processed, running, action_queue,
                   sequence, at_action, st, sim, wire, assigned,
                   shutdown_returned,
                   match_sequences, ctor, conn,
                   launcher_vars>>

\* _track_dropped: the number of packets reported dropped (0: nothing logged)
TrackDropped_OffByOne(state_seq, last_sequence) ==
    IF last_sequence = None \/ state_seq <= last_sequence THEN 0
    ELSE IF state_seq > last_sequence + 1 THEN state_seq - last_sequence
    ELSE 0
\* A tracker that takes a sequence going back for packets lost.
TrackDropped_RestartCounted(state_seq, last_sequence) ==
    IF last_sequence = None THEN 0
    ELSE IF state_seq <= last_sequence THEN last_sequence - state_seq + 1
    ELSE IF state_seq > last_sequence + 1 THEN state_seq - last_sequence - 1
    ELSE 0
TrackDropped(state_seq, last_sequence) ==
    IF last_sequence = None \/ state_seq <= last_sequence THEN 0
    ELSE IF state_seq > last_sequence + 1 THEN state_seq - last_sequence - 1
    ELSE 0

\* The sequence the StateThread received and what its _track_dropped call logs.
DropsReportRecv(state_seq, n_dropped) ==
    IF drops.recv_on
      THEN [drops EXCEPT
              !.recv_reports = Append(@, [sequence |-> state_seq,
                                          n_dropped |-> n_dropped])]
      ELSE drops

\* The sequence recv_state returns and what its _track_dropped call logs.
DropsReport(state_seq, n_dropped) ==
    IF drops.on
      THEN [drops EXCEPT
              !.reports = Append(@, [sequence |-> state_seq,
                                     n_dropped |-> n_dropped,
                                     between_gets |-> drops.between_gets,
                                     since_return |-> drops.since_return]),
              !.total = @ + n_dropped,
              !.since_return = 0]
      ELSE drops

\* put has discarded a value, or found the slot empty.
DropsDiscard(dropped) ==
    IF drops.on /\ dropped
      THEN [drops EXCEPT !.since_get = @ + 1, !.since_return = @ + 1]
      ELSE drops

\* recv_state: _track_dropped("Process", state, state_sequence_last_processed),
\* which only logs, then state_sequence_last_processed = state.sequence, and
\* return
RecvStateTrack(t) ==
    /\ pc[t] = "rs_track"
    /\ drops' = DropsReport(caller[t].state.sequence,
                            TrackDropped(caller[t].state.sequence,
                                         state_sequence_last_processed))
    /\ state_sequence_last_processed' = caller[t].state.sequence
    /\ IF caller[t].op = "recv_state"
         THEN /\ pc' = [pc EXCEPT ![t] = "idle"]
              /\ caller' = Return(t)
         ELSE /\ pc' = [pc EXCEPT ![t] = "sar_check"]
              /\ UNCHANGED caller
    /\ UNCHANGED <<action_sequence_last_queued, state_sequence_last_received,
                   running, action_queue, state_queue, sequence, at_action, st,
                   sim, wire, assigned, slot_log, run, last_get,
                   shutdown_returned, match_sequences, ctor, conn,
                   launcher_vars>>

\* send_and_recv: state.last_action_sequence >= self.action_sequence_last_queued
MatchOk_Always(last_action_sequence, last_queued) == TRUE
MatchOk_OffByOne(last_action_sequence, last_queued) ==
    last_action_sequence >= last_queued - 1
MatchOk(last_action_sequence, last_queued) ==
    last_action_sequence >= last_queued

\* send_and_recv: without self.match_sequences the first observation is
\* returned; with it, the test of the match loop: break and return, or log
\* Skip-State and call recv_state again.
SendAndRecvCheckLogging(t, recorded) ==
    /\ pc[t] = "sar_check"
    /\ IF \/ ~match_sequences
          \/ MatchOk(caller[t].state.last_action_sequence,
                     action_sequence_last_queued)
         THEN /\ pc' = [pc EXCEPT ![t] = "idle"]
              /\ caller' = Return(t)
         ELSE /\ pc' = [pc EXCEPT ![t] = "rs_get"]
              /\ caller' = [caller EXCEPT ![t].skips =
                                       IF recorded THEN @ + 1 ELSE @]
    /\ UNCHANGED <<action_sequence_last_queued, state_sequence_last_received,
                   state_sequence_last_processed, running, action_queue,
                   state_queue, sequence, at_action, st, sim, wire, assigned,
                   slot_log, run, last_get, shutdown_returned,
                   match_sequences, ctor, drops, conn,
                   launcher_vars>>

\* The Skip-State lines are counted, except where the number of observations
\* is not limited.
SendAndRecvCheck(t) == SendAndRecvCheckLogging(t, TRUE)

\* A shutdown that runs the statements of the docstring: clear _running and
\* put None on the action queue, at every call.
Shutdown_Docstring(t) ==
    /\ pc[t] = "idle"
    /\ caller' = [caller EXCEPT ![t] = [NoCall EXCEPT !.op = "shutdown",
                                                      !.returned = TRUE]]
    /\ shutdown_returned' = TRUE
    /\ running' = FALSE
    /\ action_queue' = QueuePut(action_queue, [NoAction EXCEPT !.obj = "None"])
    /\ UNCHANGED <<action_sequence_last_queued, state_sequence_last_received,
                   state_sequence_last_processed, state_queue, sequence, pc,
                   at_action, st, sim, wire, assigned, slot_log, run, last_get,
                   match_sequences, ctor, drops, conn,
                   launcher_vars>>

\* Controller.shutdown: the body is a docstring and an Ellipsis; nothing is done
Shutdown(t) ==
    /\ pc[t] = "idle"
    /\ caller' = [caller EXCEPT ![t] = [NoCall EXCEPT !.op = "shutdown",
                                                      !.returned = TRUE]]
    /\ shutdown_returned' = TRUE
    /\ UNCHANGED <<action_sequence_last_queued, state_sequence_last_received,
                   state_sequence_last_processed, running, action_queue,
                   state_queue, sequence, pc, at_action, st, sim, wire,
                   assigned, slot_log, run, last_get,
                   match_sequences, ctor, drops, conn,
                   launcher_vars>>

\* -------------------------------------------------------- ActionThread
\* _action_thread_fn: while self._running.is_set(): action = self._action_queue.get();
\* a None entry ends the loop
ActionGet ==
    /\ pc["ActionThread"] = "at_get"
    /\ running
    /\ action_queue # <<>>
    /\ LET g == QueueGet(action_queue) IN
         /\ action_queue' = g.rest
         /\ at_action' = g.item
         /\ pc' = [pc EXCEPT !["ActionThread"] =
                      IF g.item.obj = "None" THEN "done" ELSE "at_send"]
    /\ UNCHANGED <<action_sequence_last_queued, state_sequence_last_received,
                   state_sequence_last_processed, running, state_queue,
                   sequence, caller, st, sim, wire, assigned, slot_log, run,
                   last_get, shutdown_returned,
                   match_sequences, ctor, drops, conn,
                   launcher_vars>>

\* ActionPacket.pack: asdict(self) reads the object's fields when it is sent
Pack(action) ==
    [sequence |-> sequence[action.obj], id |-> action.id,
     enq_sequence |-> action.enq_sequence]

\* _action_thread_fn: self._mcio_conn.send_action(action)
ActionSend ==
    /\ pc["ActionThread"] = "at_send"
    /\ wire' = Append(wire, Pack(at_action))
    /\ at_action' = NoAction
    /\ pc' = [pc EXCEPT !["ActionThread"] = "at_get"]
    /\ UNCHANGED <<action_sequence_last_queued, state_sequence_last_received,
                   state_sequence_last_processed, running, action_queue,
                   state_queue, sequence, caller, st, sim, assigned, slot_log,
                   run, last_get, shutdown_returned,
                   match_sequences, ctor, drops, conn,
                   launcher_vars>>

\* --------------------------------------------------------- StateThread
\* The sequence the peer stamps on its next observation: the next one, one
\* after a packet lost in transit, or 0 again after the peer restarted.
NextSequences == {sim.sequence + 1, sim.sequence + 2, 0}

\* A peer that is not restarted: the next sequence, or one after one or two
\* packets lost in transit.
GapSequences == {sim.sequence + 1, sim.sequence + 2, sim.sequence + 3}

\* A peer that echoes: last_action_sequence is the sequence of an action
\* packet it has received, or 0 before the first.
EchoSequences == {0} \cup {wire[i].sequence : i \in DOMAIN wire}

\* The values of last_action_sequence the peer can report: any action
\* sequence up to the last one queued, in any order.
LastActionSequences == 0..action_sequence_last_queued

\* _state_thread_fn: while self._running.is_set(): state = self._mcio_conn.recv_state();
\* an undecodable payload gives None and the loop continues
StateRecvUndecodable(max) ==
    /\ pc["StateThread"] = "st_recv"
    /\ running
    /\ ~conn.closed
    /\ sim.n < max
    /\ sim' = [sim EXCEPT !.n = @ + 1]
    /\ UNCHANGED <<action_sequence_last_queued, state_sequence_last_received,
                   state_sequence_last_processed, running, action_queue,
                   state_queue, sequence, pc, caller, at_action, st, wire,
                   assigned, slot_log, run, last_get, shutdown_returned,
                   match_sequences, ctor, drops, conn,
                   launcher_vars>>

\* The same step recording as received the sequence of the previous
\* observation, as if the counter were updated after the put.
StateRecv_RecordLate(max, sequences, last_action_sequences) ==
    /\ pc["StateThread"] = "st_recv"
    /\ running
    /\ ~conn.closed
    /\ sim.n < max
    /\ \E s \in sequences, las \in last_action_sequences :
          /\ sim' = [n |-> sim.n + 1, sequence |-> s]
          /\ st' = [state |-> [version |-> MCIO_PROTOCOL_VERSION,
                               sequence |-> s, last_action_sequence |-> las,
                               cursor_mode |-> PyInt(GLFW_CURSOR_NORMAL),
                               id |-> IF Recording THEN sim.n + 1 ELSE 0],
                    dropped |-> FALSE, x |-> 0]
          /\ drops' = DropsReportRecv(s, TrackDropped(s, state_sequence_last_received))
          /\ state_sequence_last_received' = sim.sequence
    /\ pc' = [pc EXCEPT !["StateThread"] = "st_get_nowait"]
    /\ UNCHANGED <<action_sequence_last_queued, state_sequence_last_processed,
                   running, action_queue, state_queue, sequence, caller,
                   at_action, wire, assigned, slot_log, run, last_get,
                   shutdown_returned,
                   match_sequences, ctor, conn,
                   launcher_vars>>

\* _state_thread_fn: while self._running.is_set(): state = self._mcio_conn.recv_state();
\* _track_dropped("Recv"); state_sequence_last_received = state.sequence
StateRecv(max, sequences, last_action_sequences) ==
    /\ pc["StateThread"] = "st_recv"
    /\ running
    /\ ~conn.closed
    /\ sim.n < max
    /\ \E s \in sequences, las \in last_action_sequences :
          /\ sim' = [n |-> sim.n + 1, sequence |-> s]
          /\ st' = [state |-> [version |-> MCIO_PROTOCOL_VERSION,
                               sequence |-> s, last_action_sequence |-> las,
                               cursor_mode |-> PyInt(GLFW_CURSOR_NORMAL),
                               id |-> IF Recording THEN sim.n + 1 ELSE 0],
                    dropped |-> FALSE, x |-> 0]
          /\ drops' = DropsReportRecv(s, TrackDropped(s, state_sequence_last_received))
          /\ state_sequence_last_received' = s
    /\ pc' = [pc EXCEPT !["StateThread"] = "st_get_nowait"]
    /\ UNCHANGED <<action_sequence_last_queued, state_sequence_last_processed,
                   running, action_queue, state_queue, sequence, caller,
                   at_action, wire, assigned, slot_log, run, last_get,
                   shutdown_returned,
                   match_sequences, ctor, conn,
                   launcher_vars>>

\* The step of StateRecv in front of a peer whose observations keep
\* arriving, with no limit on their number. The sequences are consecutive
\* and kept in 1..MaxSequence: nothing recv_state waits for depends on them.
StateRecvArrivingWith(last_action_sequence) ==
    /\ pc["StateThread"] = "st_recv"
    /\ running
    /\ ~conn.closed
    /\ LET s == (sim.sequence % MaxSequence) + 1 IN
          /\ sim' = [sim EXCEPT !.sequence = s]
          /\ st' = [state |-> [version |-> MCIO_PROTOCOL_VERSION,
                               sequence |-> s, last_action_sequence |-> last_action_sequence,
                               cursor_mode |-> PyInt(GLFW_CURSOR_NORMAL),
                               id |-> 0],
                    dropped |-> FALSE, x |-> 0]
          /\ state_sequence_last_received' = s
    /\ pc' = [pc EXCEPT !["StateThread"] = "st_get_nowait"]
    /\ UNCHANGED <<action_sequence_last_queued, state_sequence_last_processed,
                   running, action_queue, state_queue, sequence, caller,
                   at_action, wire, assigned, slot_log, run, last_get,
                   shutdown_returned,
                   match_sequences, ctor, drops, conn,
                   launcher_vars>>

StateRecvArriving == StateRecvArrivingWith(0)

\* A peer that received every action sent and reports the largest sequence
\* among them, 0 before the first.
AppliedSequence ==
    LET received == {0} \cup {wire[i].sequence : i \in DOMAIN wire}
    IN CHOOSE m \in received : \A n \in received : n <= m

\* _Connection.close: both sockets are closed and the zmq context terminated.
\* Nothing of Controller calls it; the application can, on ctrl._mcio_conn.
ConnClose ==
    /\ ~conn.closed
    /\ pc["StateThread"] # "not_started"
    /\ conn' = [conn EXCEPT !.closed = TRUE]
    /\ UNCHANGED <<action_sequence_last_queued, state_sequence_last_received,
                   state_sequence_last_processed, running, action_queue,
                   state_queue, sequence, pc, caller, at_action, st, sim, wire,
                   assigned, slot_log, run, last_get, shutdown_returned,
                   match_sequences, ctor, drops,
                   launcher_vars>>

\* _state_thread_fn on the closed transport: the recv the thread is blocked in
\* raises ContextTerminated, _Connection.recv_state returns None and the loop
\* continues, _running being set. A recv called on the transport already
\* closed raises ContextTerminated again, or another ZMQError that nothing
\* catches and that ends the thread.
StateRecvTerminated(max) ==
    /\ pc["StateThread"] = "st_recv"
    /\ running
    /\ conn.closed
    /\ conn.terminated < max
    /\ conn' = [conn EXCEPT !.terminated = @ + 1]
    /\ \E error \in IF conn.terminated = 0 THEN {"ContextTerminated"}
                     ELSE {"ContextTerminated", "ZMQError"} :
          pc' = [pc EXCEPT !["StateThread"] =
                    IF error = "ContextTerminated" THEN "st_recv" ELSE "dead"]
    /\ UNCHANGED <<action_sequence_last_queued, state_sequence_last_received,
                   state_sequence_last_processed, running, action_queue,
                   state_queue, sequence, caller, at_action, st, sim, wire,
                   assigned, slot_log, run, last_get, shutdown_returned,
                   match_sequences, ctor, drops,
                   launcher_vars>>

\* The payloads the state socket can deliver next. A payload is bytes that are
\* not CBOR ("invalid"), or the CBOR encoding of an integer, a byte string, a
\* list or a map; extra tells whether a map has a key that is no field of
\* StatePacket, and cursor_mode is PyNone in a map without that key. A map
\* carries the next sequence of the peer.
Versions == {MCIO_PROTOCOL_VERSION, MCIO_PROTOCOL_VERSION + 1}

CursorModes ==
    {PyNone, PyInt(GLFW_CURSOR_NORMAL), PyInt(GLFW_CURSOR_DISABLED)}

Payloads ==
    {[top |-> t, extra |-> FALSE, version |-> MCIO_PROTOCOL_VERSION,
      sequence |-> 0, last_action_sequence |-> 0, cursor_mode |-> PyNone] :
        t \in {"invalid", "int", "bytes", "list"}}
    \cup
    {[top |-> "map", extra |-> e, version |-> v,
      sequence |-> sim.sequence + 1, last_action_sequence |-> 0,
      cursor_mode |-> c] :
        e \in BOOLEAN, v \in Versions, c \in CursorModes}

\* StatePacket.get_frame_with_cursor: the simulated cursor is drawn if
\* self.cursor_mode == glfw.CURSOR_NORMAL
GetFrameWithCursor(state) == state.cursor_mode = PyInt(GLFW_CURSOR_NORMAL)

\* StatePacket.unpack: rv = cls(**decoded_dict) raises TypeError unless
\* decoded_dict is a mapping whose keys are all fields of StatePacket
ClsRaises(data) == data.top # "map" \/ data.extra

\* StatePacket.unpack, in the except clause: 'frame_png' in decoded_dict
\* raises TypeError for an integer and for a byte string
ContainsRaises(data) == data.top \in {"int", "bytes"}

\* StatePacket.unpack: the StatePacket, or None after a logged error, or the
\* exception that leaves the except clause. No field is validated; a field
\* the map omits takes the default of the dataclass.
Unpack(data) ==
    IF data.top = "invalid"
      THEN [result |-> "None", state |-> NoState]
    ELSE IF ~ClsRaises(data)
      THEN [result |-> "state",
            state |-> [version |-> data.version, sequence |-> data.sequence,
                       last_action_sequence |-> data.last_action_sequence,
                       cursor_mode |-> IF data.cursor_mode = PyNone
                                         THEN CursorModeDefault
                                         ELSE data.cursor_mode,
                       id |-> 0]]
    ELSE IF ContainsRaises(data)
      THEN [result |-> "raise", state |-> NoState]
    ELSE [result |-> "None", state |-> NoState]

\* _state_thread_fn: state = self._mcio_conn.recv_state() for any payload.
\* An exception out of unpack is caught nowhere and ends the thread; None
\* continues the loop; a StatePacket is tracked and goes on to the put.
StateRecvPayload(max, payloads) ==
    /\ pc["StateThread"] = "st_recv"
    /\ running
    /\ ~conn.closed
    /\ sim.n < max
    /\ \E data \in payloads :
          LET u == Unpack(data) IN
            /\ sim' = [n |-> sim.n + 1,
                       sequence |-> IF data.top = "map" THEN data.sequence
                                                        ELSE sim.sequence]
            /\ pc' = [pc EXCEPT !["StateThread"] =
                         IF u.result = "raise" THEN "dead"
                         ELSE IF u.result = "None" THEN "st_recv"
                         ELSE "st_get_nowait"]
            /\ st' = IF u.result = "state"
                       THEN [state |-> u.state, dropped |-> FALSE, x |-> 0]
                       ELSE st
            /\ state_sequence_last_received' =
                  IF u.result = "state" THEN u.state.sequence
                                        ELSE state_sequence_last_received
    /\ UNCHANGED <<action_sequence_last_queued, state_sequence_last_processed,
                   running, action_queue, state_queue, sequence, caller,
                   at_action, wire, assigned, slot_log, run, last_get,
                   shutdown_returned, match_sequences, ctor, drops, conn,
                   launcher_vars>>

\* _LatestItemQueue.put: x = self.get_nowait(); dropped = True, or queue.Empty
\* and dropped stays False
GetNowait_NeverDropped(q) ==
    IF q # <<>> THEN [dropped |-> FALSE, x |-> Head(q).id, rest |-> Tail(q)]
                ELSE [dropped |-> FALSE, x |-> 0, rest |-> q]
GetNowait_AlwaysDropped(q) ==
    IF q # <<>> THEN [dropped |-> TRUE, x |-> Head(q).id, rest |-> Tail(q)]
                ELSE [dropped |-> TRUE, x |-> 0, rest |-> q]
GetNowait(q) ==
    IF q # <<>> THEN [dropped |-> TRUE, x |-> Head(q).id, rest |-> Tail(q)]
                ELSE [dropped |-> FALSE, x |-> 0, rest |-> q]

SlotLogPut(id, x, dropped) ==
    [i \in DOMAIN slot_log |->
        IF i = id THEN (IF slot_log[i] = "none" THEN "stored" ELSE "twice")
        ELSE IF i = x THEN (IF dropped /\ slot_log[i] = "stored"
                              THEN "displaced" ELSE "lost")
        ELSE slot_log[i]]

\* A put that keeps every item: no discard, no capacity.
StateGetNowait_PlainPut ==
    /\ pc["StateThread"] = "st_get_nowait"
    /\ state_queue' = QueuePut(state_queue, st.state)
    /\ slot_log' = SlotLogPut(st.state.id, 0, FALSE)
    /\ run' = IF Recording
                THEN Append(run, [id |-> st.state.id, dropped |-> FALSE])
                ELSE run
    /\ pc' = [pc EXCEPT !["StateThread"] = "st_recv"]
    /\ UNCHANGED <<action_sequence_last_queued, state_sequence_last_received,
                   state_sequence_last_processed, running, action_queue,
                   sequence, caller, at_action, st, sim, wire, assigned,
                   last_get, shutdown_returned,
                   match_sequences, ctor, drops, conn,
                   launcher_vars>>

\* _LatestItemQueue.put, first half: discard the current item if there is one
StateGetNowait ==
    /\ pc["StateThread"] = "st_get_nowait"
    /\ LET g == GetNowait(state_queue) IN
         /\ state_queue' = g.rest
         /\ st' = [st EXCEPT !.dropped = g.dropped, !.x = g.x]
         /\ drops' = DropsDiscard(g.dropped)
    /\ pc' = [pc EXCEPT !["StateThread"] = "st_super_put"]
    /\ UNCHANGED <<action_sequence_last_queued, state_sequence_last_received,
                   state_sequence_last_processed, running, action_queue,
                   sequence, caller, at_action, sim, wire, assigned, slot_log,
                   run, last_get, shutdown_returned,
                   match_sequences, ctor, conn,
                   launcher_vars>>

\* _LatestItemQueue.put, second half: super().put(item); return dropped
StateSuperPut ==
    /\ pc["StateThread"] = "st_super_put"
    /\ ~QueueFull(state_queue, SlotMaxSize)
    /\ state_queue' = QueuePut(state_queue, st.state)
    /\ slot_log' = SlotLogPut(st.state.id, st.x, st.dropped)
    /\ run' = IF Recording
                THEN Append(run, [id |-> st.state.id, dropped |-> st.dropped])
                ELSE run
    /\ pc' = [pc EXCEPT !["StateThread"] = "st_recv"]
    /\ UNCHANGED <<action_sequence_last_queued, state_sequence_last_received,
                   state_sequence_last_processed, running, action_queue,
                   sequence, caller, at_action, st, sim, wire, assigned,
                   last_get, shutdown_returned,
                   match_sequences, ctor, drops, conn,
                   launcher_vars>>

\* ------------------------------------------------------------- launcher
\* launcher.py: Installer and Launcher on one mcio_dir, and the ConfigManager
\* each of them constructs.
InstanceIds == {"main", "test"}        \* instance ids the user passes
McVersions == {"1.21.3", "1.21.4"}     \* mc_version arguments
Installers == {"i1", "i2"}             \* Installer objects alive at a time
Absent == "absent"                     \* dict.get(instance_id) is None

\* Config(): instances is an empty dict (default_factory=dict)
ConfigNew == [instances |-> [i \in InstanceIds |-> Absent]]

\* ConfigManager.__init__: self.config = Config(). The file is not read: load()
\* is a method that nothing in the module calls.
ConfigManagerNew(file) == ConfigNew

\* ConfigManager.save: open(self.config_file, "w") and dump config.to_dict():
\* the file holds what this object's config holds, and nothing else.
ConfigManagerSave(config) == [exists |-> TRUE, instances |-> config.instances]

NoFile == [exists |-> FALSE, instances |-> ConfigNew.instances]
NoInstaller ==
    [state |-> "none", instance_id |-> Absent, mc_version |-> Absent,
     config |-> ConfigNew, recorded |-> FALSE]
NoLauncher ==
    [called |-> FALSE, instance_id |-> Absent, raised |-> FALSE,
     mc_version |-> Absent, recorded |-> Absent]

\* Nothing is installed and no object of launcher.py exists.
NoInstalls ==
    /\ config_file = NoFile
    /\ installer = [o \in Installers |-> NoInstaller]
    /\ launcher = NoLauncher
    /\ installed = [i \in InstanceIds |-> Absent]

\* Installer.__init__: self.cfg_mgr = ConfigManager(self.mcio_dir); ValueError
\* if self.cfg_mgr.config.instances.get(self.instance_id) is not None.
\* recorded: the config file named the instance when the call was made.
InstallerInit(o, instance_id, mc_version) ==
    /\ LET config == ConfigManagerNew(config_file) IN
         installer' = [installer EXCEPT ![o] =
            [state |-> IF config.instances[instance_id] # Absent
                         THEN "ValueError" ELSE "constructed",
             instance_id |-> instance_id,
             mc_version |-> mc_version,
             config |-> config,
             recorded |-> /\ config_file.exists
                          /\ config_file.instances[instance_id] # Absent]]
    /\ UNCHANGED <<config_file, launcher, installed, controller_vars>>

\* Installer.install, to its end: the downloads and file operations succeeded;
\* self.cfg_mgr.config.instances[self.instance_id] = Instance(self.mc_version)
\* and self.cfg_mgr.save().
InstallerInstall(o) ==
    /\ installer[o].state = "constructed"
    /\ LET config == [installer[o].config EXCEPT
                         !.instances[installer[o].instance_id] =
                             installer[o].mc_version] IN
         /\ installer' = [installer EXCEPT ![o].state = "installed",
                                           ![o].config = config]
         /\ config_file' = ConfigManagerSave(config)
    /\ installed' = [installed EXCEPT ![installer[o].instance_id] =
                                         installer[o].mc_version]
    /\ UNCHANGED <<launcher, controller_vars>>

\* Installer.install ended by an exception of a download or of a file
\* operation (raise_for_status, unlink): the config is not saved.
InstallerInstallRaises(o) ==
    /\ installer[o].state = "constructed"
    /\ installer' = [installer EXCEPT ![o].state = "raised"]
    /\ UNCHANGED <<config_file, launcher, installed, controller_vars>>

\* Launcher.__init__: cm = ConfigManager(self.mcio_dir); ValueError if
\* cm.config.instances.get(self.instance_id) is None, else
\* self.mc_version = instance_config.version.
\* recorded: the version the last completed install of the instance recorded.
LauncherInit(instance_id) ==
    /\ LET cm == ConfigManagerNew(config_file)
           instance_config == cm.instances[instance_id] IN
         launcher' = [called |-> TRUE,
                      instance_id |-> instance_id,
                      raised |-> instance_config = Absent,
                      mc_version |-> instance_config,
                      recorded |-> installed[instance_id]]
    /\ UNCHANGED <<config_file, installer, installed, controller_vars>>

\* ------------------------------------------------------ specifications
SendActionSteps(t) ==
    \/ SendActionLoad(t)
    \/ SendActionStore(t)
    \/ SendActionRead(t)
    \/ SendActionAssign(t)
    \/ SendActionPut(t)

RecvStateSteps(t) == RecvStateGet(t) \/ RecvStateTrack(t)

CallerStep(t) ==
    \/ \E op \in {"send_action", "send_and_recv"}, obj \in Objs : CallStart(t, op, obj)
    \/ CallStart(t, "recv_state", "none")
    \/ SendActionSteps(t)
    \/ RecvStateSteps(t)
    \/ SendAndRecvCheck(t)
    \/ Shutdown(t)

ActionThread == ActionGet \/ ActionSend

StatePut == StateGetNowait \/ StateSuperPut

\* One application thread and the two workers; the peer stamps consecutive
\* sequences and reports any last_action_sequence.
Init == Constructed /\ slot_log = <<>> /\ drops = NoDrops /\ NoInstalls

Next ==
    \/ CallerStep("c1")
    \/ ActionThread
    \/ StateRecvUndecodable(MaxRecv)
    \/ StateRecv(MaxRecv, {sim.sequence + 1}, LastActionSequences)
    \/ StatePut

Spec == Init /\ [][Next]_vars

\* The slot alone: one thread calling recv_state, the StateThread putting,
\* and the history of every value put recorded.
InitSlot ==
    Constructed /\ slot_log = [i \in TrackedIds |-> "none"] /\ drops = NoDrops
        /\ NoInstalls

NextSlot ==
    \/ CallStart("c1", "recv_state", "none")
    \/ RecvStateSteps("c1")
    \/ StateRecvUndecodable(MaxPuts)
    \/ StateRecv(MaxPuts, NextSequences, LastActionSequences)
    \/ StatePut

SpecSlot == InitSlot /\ [][NextSlot]_vars

\* Two application threads calling send_action on the same Controller.
NextMT ==
    \/ \E t \in AllCallers :
          \/ \E obj \in Objs : CallStart(t, "send_action", obj)
          \/ SendActionSteps(t)
    \/ ActionThread

SpecMT == Init /\ [][NextMT]_vars

\* A peer that restarted: every observation reports last_action_sequence = 0,
\* and the next one arrives once the slot is empty again.
StaleLimit == IF state_queue = <<>> THEN MaxStale ELSE 0

NextStale ==
    \/ CallStart("c1", "send_and_recv", "a")
    \/ SendActionSteps("c1")
    \/ RecvStateSteps("c1")
    \/ SendAndRecvCheck("c1")
    \/ ActionThread
    \/ StateRecv(StaleLimit, {sim.sequence + 1}, {0})
    \/ StatePut

SpecStale == Init /\ [][NextStale]_vars

\* One thread in recv_state while another calls shutdown. The threads are
\* scheduled fairly; nothing makes the peer send.
NextShutdown ==
    \/ CallStart("c1", "recv_state", "none")
    \/ RecvStateSteps("c1")
    \/ Shutdown("c2")
    \/ StateRecvUndecodable(MaxRecv)
    \/ StateRecv(MaxRecv, {sim.sequence + 1}, LastActionSequences)
    \/ StatePut

SpecShutdown ==
    /\ Init
    /\ [][NextShutdown]_vars
    /\ WF_vars(RecvStateSteps("c1"))
    /\ WF_vars(StatePut)

\* Two application threads that both call shutdown, one of them also sending
\* actions and receiving observations before, between and after.
NextClose ==
    \/ \E obj \in Objs : CallStart("c1", "send_action", obj)
    \/ CallStart("c1", "recv_state", "none")
    \/ SendActionSteps("c1")
    \/ RecvStateSteps("c1")
    \/ \E t \in AllCallers : Shutdown(t)
    \/ ActionThread
    \/ StateRecv(MaxRecv, {sim.sequence + 1}, LastActionSequences)
    \/ StatePut

SpecClose == Init /\ [][NextClose]_vars

\* One thread calling recv_state while the state socket delivers payloads of
\* every kind.
NextCodec ==
    \/ CallStart("c1", "recv_state", "none")
    \/ RecvStateSteps("c1")
    \/ StateRecvPayload(MaxRecv, Payloads)
    \/ StatePut

SpecCodec == Init /\ [][NextCodec]_vars

\* Controller(match_sequences=False) in front of a peer that reports
\* last_action_sequence = 0.
InitNoMatch == ControllerNew(FALSE) /\ slot_log = <<>> /\ drops = NoDrops
        /\ NoInstalls

SpecNoMatch == InitNoMatch /\ [][NextStale]_vars

\* One thread calling recv_state in front of a peer whose sequences only
\* grow; the slot history and the reports of _track_dropped are recorded.
InitDrops ==
    Constructed /\ slot_log = [i \in TrackedIds |-> "none"] /\ drops = RecordDrops
        /\ NoInstalls

NextDrops ==
    \/ CallStart("c1", "recv_state", "none")
    \/ RecvStateSteps("c1")
    \/ StateRecv(MaxPuts, GapSequences, {0})
    \/ StatePut

SpecDrops == InitDrops /\ [][NextDrops]_vars

\* From the call of Controller() on: the constructing thread, which then
\* sends actions, and the two workers once they are started.
InitUnconstructed == Unconstructed /\ slot_log = <<>> /\ drops = NoDrops
        /\ NoInstalls

NextInit ==
    \/ Construct("c1")
    \/ \E obj \in Objs : CallStart("c1", "send_action", obj)
    \/ SendActionSteps("c1")
    \/ ActionThread
    \/ StateRecv(MaxRecv, {sim.sequence + 1}, LastActionSequences)
    \/ StatePut

SpecInit == InitUnconstructed /\ [][NextInit]_vars

\* Gym: reset constructs the Controller, with either value of the setting
\* match_sequences, and every later call is a step.
InitGym ==
    /\ ControllerFields
    /\ pc = [t \in AllCallers \cup {"ActionThread", "StateThread"} |->
                IF t \in AllCallers THEN "gym" ELSE "not_started"]
    /\ ctor \in {[match_sequences |-> b, events |-> <<>>] : b \in BOOLEAN}
    /\ slot_log = <<>>
    /\ drops = NoDrops
    /\ NoInstalls

NextGym ==
    \/ GymReset("c1")
    \/ Construct("c1")
    \/ \E obj \in Objs : GymStep("c1", obj)
    \/ SendActionSteps("c1")
    \/ RecvStateSteps("c1")
    \/ SendAndRecvCheck("c1")
    \/ ActionThread
    \/ StateRecv(MaxRecv, {sim.sequence + 1}, LastActionSequences)
    \/ StatePut

SpecGym == InitGym /\ [][NextGym]_vars

\* One thread in send_and_recv(a) while another calls send_action(b) on the
\* same Controller.
NextMatchMT ==
    \/ CallStart("c1", "send_and_recv", "a")
    \/ SendActionSteps("c1")
    \/ RecvStateSteps("c1")
    \/ SendAndRecvCheck("c1")
    \/ CallStart("c2", "send_action", "b")
    \/ SendActionSteps("c2")
    \/ ActionThread
    \/ StateRecv(MaxRecv, {sim.sequence + 1}, LastActionSequences)
    \/ StatePut

SpecMatchMT == Init /\ [][NextMatchMT]_vars

\* A peer that emits StaleEmitted observations with last_action_sequence = 0
\* and, once it has received the first action, one with last_action_sequence
\* = 1; the caller runs send_and_recv and the slot history is recorded.
SkipsLimit ==
    IF sim.n = StaleEmitted /\ wire = <<>> THEN 0 ELSE StaleEmitted + 1

SkipsLastActionSequences == IF sim.n < StaleEmitted THEN {0} ELSE {1}

NextSkips ==
    \/ CallStart("c1", "send_and_recv", "a")
    \/ SendActionSteps("c1")
    \/ RecvStateSteps("c1")
    \/ SendAndRecvCheck("c1")
    \/ ActionThread
    \/ StateRecv(SkipsLimit, {sim.sequence + 1}, SkipsLastActionSequences)
    \/ StatePut

SpecSkips == InitSlot /\ [][NextSkips]_vars

\* One application thread in front of a peer that echoes the sequence of the
\* actions it received.
NextEcho ==
    \/ \E op \in {"send_action", "send_and_recv"}, obj \in Objs :
          CallStart("c1", op, obj)
    \/ SendActionSteps("c1")
    \/ RecvStateSteps("c1")
    \/ SendAndRecvCheck("c1")
    \/ ActionThread
    \/ StateRecv(MaxRecv, {sim.sequence + 1}, EchoSequences)
    \/ StatePut

SpecEcho == Init /\ [][NextEcho]_vars

\* The transport is closed under the running StateThread, while a thread
\* calls recv_state.
NextTeardown ==
    \/ CallStart("c1", "recv_state", "none")
    \/ RecvStateSteps("c1")
    \/ ConnClose
    \/ StateRecv(MaxRecv, {sim.sequence + 1}, LastActionSequences)
    \/ StateRecvTerminated(MaxTerminated)
    \/ StatePut

SpecTeardown == Init /\ [][NextTeardown]_vars

\* One thread calling recv_state in front of a peer that emits consecutive
\* sequences, none lost in transit; discards and reports are recorded.
NextAccount ==
    \/ CallStart("c1", "recv_state", "none")
    \/ RecvStateSteps("c1")
    \/ StateRecv(MaxPuts, {sim.sequence + 1}, {0})
    \/ StatePut

SpecAccount == InitDrops /\ [][NextAccount]_vars

\* One thread calling recv_state while observations keep arriving. Both
\* threads are scheduled fairly: each one runs when it can. The caller blocked
\* in get is woken by the notify of a put and then tests the slot again
\* (queue.Queue.get: while not self._qsize(): self.not_empty.wait()); nothing
\* reserves the value for it.
NextArrive ==
    \/ CallStart("c1", "recv_state", "none")
    \/ RecvStateSteps("c1")
    \/ StateRecvArriving
    \/ StatePut

FairStateThread == WF_vars(StateRecvArriving) /\ WF_vars(StatePut)

SpecArrive ==
    /\ Init
    /\ [][NextArrive]_vars
    /\ FairStateThread
    /\ WF_vars(RecvStateSteps("c1"))

\* The same with a caller that is sure to win one of the races for the slot
\* when they go on for ever: strong fairness on its get.
SpecArriveStrong ==
    /\ Init
    /\ [][NextArrive]_vars
    /\ FairStateThread
    /\ SF_vars(RecvStateGet("c1"))
    /\ WF_vars(RecvStateTrack("c1"))

\* One thread calling send_and_recv in front of a peer that is not restarted,
\* receives every action sent and keeps emitting observations that report
\* the largest action sequence it applied. Every thread runs when it can.
NextApplied ==
    \/ \E obj \in Objs : CallStart("c1", "send_and_recv", obj)
    \/ SendActionSteps("c1")
    \/ RecvStateSteps("c1")
    \/ SendAndRecvCheckLogging("c1", FALSE)
    \/ ActionThread
    \/ StateRecvArrivingWith(AppliedSequence)
    \/ StatePut

FairApplied ==
    /\ WF_vars(SendActionSteps("c1"))
    /\ WF_vars(SendAndRecvCheckLogging("c1", FALSE))
    /\ WF_vars(ActionThread)
    /\ WF_vars(StateRecvArrivingWith(AppliedSequence))
    /\ WF_vars(StatePut)

SpecApplied ==
    /\ Init
    /\ [][NextApplied]_vars
    /\ FairApplied
    /\ WF_vars(RecvStateSteps("c1"))

\* The same with a caller that is sure to win one of the races for the slot
\* when they go on for ever.
SpecAppliedStrong ==
    /\ Init
    /\ [][NextApplied]_vars
    /\ FairApplied
    /\ SF_vars(RecvStateGet("c1"))
    /\ WF_vars(RecvStateTrack("c1"))

\* A peer that can restart, or repeat itself: the next sequence, one after a
\* packet lost, 0 again, or the same sequence once more.
RestartSequences == NextSequences \cup {sim.sequence}

\* One thread calling recv_state in front of such a peer; what _track_dropped
\* logs is recorded for both of its callers.
InitRestart == Constructed /\ slot_log = <<>> /\ drops = RecordBothDrops
        /\ NoInstalls

NextRestart ==
    \/ CallStart("c1", "recv_state", "none")
    \/ RecvStateSteps("c1")
    \/ StateRecv(MaxPuts, RestartSequences, {0})
    \/ StatePut

SpecRestart == InitRestart /\ [][NextRestart]_vars

\* Installs and launches on one mcio_dir, in any order.
NextInstall ==
    \/ \E o \in Installers, instance_id \in InstanceIds, mc_version \in McVersions :
          InstallerInit(o, instance_id, mc_version)
    \/ \E o \in Installers : InstallerInstall(o)
    \/ \E o \in Installers : InstallerInstallRaises(o)
    \/ \E instance_id \in InstanceIds : LauncherInit(instance_id)

SpecInstall == Init /\ [][NextInstall]_vars

\* ------------------------------------------------------------- claims
Returned(t, op) == caller[t].op = op /\ caller[t].returned

\* C1: an observation returned by send_and_recv(A) has last_action_sequence
\* at least the sequence that the call assigned to A.
C1_MatchedObservation ==
    \A t \in AllCallers :
        Returned(t, "send_and_recv") =>
            caller[t].state.last_action_sequence >= caller[t].my_sequence

\* C1 witness: a second send_and_recv call returned after skipping a stale
\* observation.
C1_Witness ==
    /\ Returned("c1", "send_and_recv")
    /\ caller["c1"].my_sequence = 2
    /\ caller["c1"].skips >= 1

\* C2: every send_action assigns a sequence strictly greater than every
\* sequence assigned before it, also when calls from two threads interleave.
C2_StrictlyIncreasing ==
    \A i, j \in DOMAIN assigned : i < j => assigned[i] < assigned[j]

\* C3: every packet the ActionThread transmits carries the sequence that
\* send_action assigned when the packet was enqueued.
C3_SentAsEnqueued ==
    \A i \in DOMAIN wire : wire[i].sequence = wire[i].enq_sequence

\* The entries put on _action_queue, oldest first: sent, being sent, queued.
Handled ==
    [i \in DOMAIN wire |-> wire[i].id]
        \o (IF at_action = NoAction THEN <<>> ELSE <<at_action.id>>)
        \o [i \in DOMAIN action_queue |-> action_queue[i].id]

\* C4: the ActionThread hands the actions to the transport in the order in
\* which send_action enqueued them, and skips none.
C4_Fifo == Handled = [i \in 1..Enqueued |-> i]

\* C4 witness: two actions were sent, the first enqueued first.
C4_Witness == Len(wire) = 2 /\ wire[1].id = 1 /\ wire[2].id = 2

\* C5: the observation slot holds at most one value.
C5_AtMostOne == Len(state_queue) <= 1

\* C5 witness: the slot is full and the StateThread is about to put again.
C5_Witness == Len(state_queue) = 1 /\ pc["StateThread"] = "st_get_nowait"

\* C6: of the puts since the last get the first returns False and the others
\* True, and a get returns the value of the last put before it.
C6_LatestValue ==
    /\ \A i \in DOMAIN run : run[i].dropped = (i > 1)
    /\ last_get.id # 0 =>
          /\ last_get.run # <<>>
          /\ last_get.id = last_get.run[Len(last_get.run)].id

\* C6 witness: three puts, then a get that returns the third; two displaced.
C6_Witness ==
    /\ Len(last_get.run) = 3
    /\ last_get.id = last_get.run[3].id
    /\ Cardinality({i \in 1..3 : last_get.run[i].dropped}) = 2

\* The value a put has taken out of the slot and not yet reported.
BeingDisplaced(i) == pc["StateThread"] = "st_super_put" /\ st.x = i

\* C7: every value put is returned by one get, or discarded by one put that
\* returns True, or still stored; none is lost or handled twice.
C7_NoSilentLoss ==
    \A i \in DOMAIN slot_log :
        /\ slot_log[i] \in {"none", "stored", "returned", "displaced"}
        /\ slot_log[i] = "stored" <=>
              \/ \E k \in DOMAIN state_queue : state_queue[k].id = i
              \/ BeingDisplaced(i)

\* C7 witness: the caller waits in get while a put is between its get_nowait
\* and its super().put, one value was returned and one displaced.
C7_Witness ==
    /\ pc["c1"] = "rs_get"
    /\ pc["StateThread"] = "st_super_put"
    /\ st.dropped
    /\ \E i, j \in DOMAIN slot_log :
          slot_log[i] = "returned" /\ slot_log[j] = "displaced"

\* C8: send_and_recv skips at most SkipBudget stale observations.
C8_SkipBudget == \A t \in AllCallers : caller[t].skips <= SkipBudget

\* C9: a recv_state call blocked on the empty slot when shutdown has returned
\* eventually returns to its caller.
C9_BlockedCallReturns ==
    (shutdown_returned /\ pc["c1"] = "rs_get" /\ state_queue = <<>>)
        ~> (pc["c1"] = "idle")

\* C10: after shutdown() has returned both workers have terminated.
C10_WorkersJoined ==
    shutdown_returned =>
        pc["ActionThread"] = "done" /\ pc["StateThread"] = "done"

\* The state of the Controller, its workers and its queues.
ProgramState ==
    <<action_sequence_last_queued, state_sequence_last_received,
      state_sequence_last_processed, match_sequences, running, action_queue,
      state_queue, sequence, pc, at_action, st, conn>>

\* Thread t calls shutdown in this step.
ShutdownCalled(t) ==
    pc[t] = "idle" /\ caller[t].op # "shutdown" /\ caller'[t].op = "shutdown"

\* C11: a call of shutdown() made after a shutdown() call has returned
\* changes no state of the Controller and returns at once without an error.
C11_SecondShutdownNoOp ==
    [][\A t \in AllCallers :
          (shutdown_returned /\ ShutdownCalled(t)) =>
              (ProgramState' = ProgramState /\ caller'[t].returned)]_vars

\* C11 witness: both threads have called shutdown on the same Controller,
\* with an action still queued and an observation in the slot.
C11_Witness ==
    /\ \A t \in AllCallers : Returned(t, "shutdown")
    /\ action_queue # <<>>
    /\ state_queue # <<>>

\* C12: once shutdown() has returned no send_action, recv_state or
\* send_and_recv call enqueues an action or returns with success.
C12_FailsFastWhenNotRunning ==
    [][shutdown_returned =>
          /\ Len(action_queue') <= Len(action_queue)
          /\ \A t \in AllCallers :
                ~(/\ ~caller[t].returned
                  /\ caller'[t].returned
                  /\ caller'[t].op # "shutdown")]_vars

\* C13: no received payload stops the StateThread.
C13_DecodeErrorsAbsorbed == pc["StateThread"] # "dead"

\* C14: no observation whose version differs from MCIO_PROTOCOL_VERSION is in
\* the slot or returned to a caller.
C14_VersionChecked ==
    /\ \A k \in DOMAIN state_queue :
          state_queue[k].version = MCIO_PROTOCOL_VERSION
    /\ \A t \in AllCallers :
          (Returned(t, "recv_state") \/ Returned(t, "send_and_recv")) =>
              caller[t].state.version = MCIO_PROTOCOL_VERSION

\* C15: a map with every known field and extra keys decodes to the same
\* observation as the map without the extra keys.
C15_UnknownFieldsIgnored ==
    \A data \in Payloads :
        (data.top = "map" /\ data.extra) =>
            /\ Unpack(data).result = "state"
            /\ Unpack(data) = Unpack([data EXCEPT !.extra = FALSE])

\* C16: a Controller constructed with match_sequences=False skips no
\* observation in send_and_recv; one constructed with match_sequences=True
\* returns only a matching observation.
C16_MatchSequencesToggles ==
    \A t \in AllCallers :
        IF ctor.match_sequences
          THEN Returned(t, "send_and_recv") =>
                 caller[t].state.last_action_sequence >= caller[t].my_sequence
          ELSE caller[t].skips = 0

\* The sequences of the observations recv_state has returned, in order.
Consumed == [i \in DOMAIN drops.reports |-> drops.reports[i].sequence]

\* C17: when recv_state returns sequence s after sequence p, s - p - 1 drops
\* are reported if s > p + 1 and none if s = p + 1; nothing is reported for
\* the first observation, and after 1, 2, 5, 6 the total reported is 2.
C17_GapsCounted ==
    /\ \A i \in DOMAIN drops.reports :
          LET s == drops.reports[i].sequence
              n == drops.reports[i].n_dropped
          IN IF i = 1 THEN n = 0
             ELSE LET p == drops.reports[i - 1].sequence IN
                    /\ s > p + 1 => n = s - p - 1
                    /\ s = p + 1 => n = 0
    /\ Consumed = <<1, 2, 5, 6>> => drops.total = 2

\* C17 witness: sequences 1, 2, 5, 6 were consumed and 2 drops reported.
C17_Witness == Consumed = <<1, 2, 5, 6>> /\ drops.total = 2

\* C18: in front of a peer whose sequences only grow, the sequences returned
\* by successive recv_state calls are strictly increasing.
C18_ReturnedIncreasing ==
    \A i, j \in DOMAIN Consumed : i < j => Consumed[i] < Consumed[j]

\* C18 witness: two observations were returned, another one was displaced
\* in the slot, and a put is under way while the caller waits in get.
C18_Witness ==
    /\ Len(Consumed) = 2
    /\ \E i \in DOMAIN slot_log : slot_log[i] = "displaced"
    /\ pc["c1"] = "rs_get"
    /\ pc["StateThread"] = "st_super_put"

\* C19: a thread inside send_action can always take its next step, whatever
\* the ActionThread has done and however many actions are queued.
C19_SendActionNeverWaits ==
    \A t \in AllCallers :
        (InSendAction(t) \/ pc[t] = "sa_put") => ENABLED SendActionSteps(t)

\* C19 witness: a send_action call is at its put while an earlier action is
\* still queued, the ActionThread not having taken it.
C19_Witness ==
    /\ pc["c1"] = "sa_put"
    /\ Len(action_queue) >= 1
    /\ pc["ActionThread"] = "at_get"

\* C20: the steps of construction are taken in the order bind, connect,
\* settle, start ActionThread, start StateThread; no worker runs before the
\* settle, and nothing is sent before all five are done.
C20_SettleBeforeSend ==
    LET order == <<"bind", "connect", "settle", "start ActionThread",
                   "start StateThread">>
    IN /\ Len(ctor.events) <= Len(order)
       /\ \A i \in DOMAIN ctor.events : ctor.events[i] = order[i]
       /\ pc["ActionThread"] # "not_started" => Len(ctor.events) >= 4
       /\ pc["StateThread"] # "not_started" => Len(ctor.events) = 5
       /\ (wire # <<>> \/ at_action # NoAction) => Len(ctor.events) = 5

\* C20 witness: the Controller was constructed step by step and its first
\* action has since been sent.
C20_Witness ==
    /\ Len(ctor.events) = 5
    /\ Len(wire) = 1
    /\ sim.n > 0

C22_ResetSendsAndMatches ==
    \A t \in AllCallers :
        (caller[t].op = "reset" /\ pc[t] = "idle") =>
            /\ Enqueued = 1
            /\ caller[t].state # NoState
            /\ caller[t].state.last_action_sequence >= 1

\* C23: send_and_recv(A) goes round its loop again only for an observation
\* whose last_action_sequence is below the sequence assigned to A.
C23_NoMatchingSkipped ==
    [][\A t \in AllCallers :
          (pc[t] = "sar_check" /\ pc'[t] = "rs_get") =>
              caller[t].state.last_action_sequence < caller[t].my_sequence]_vars

\* The stale observations that a later put discarded from the slot.
StaleDisplaced == {i \in 1..StaleEmitted : slot_log[i] = "displaced"}

\* C24: after StaleEmitted stale observations and a matching one, the first
\* send_and_recv returns having logged exactly StaleEmitted Skip-State events.
C24_ExactlyKSkips ==
    (Returned("c1", "send_and_recv") /\ caller["c1"].my_sequence = 1) =>
        /\ caller["c1"].skips = StaleEmitted
        /\ caller["c1"].state.last_action_sequence >= 1

\* C24 amended: it returns the matching observation having logged one
\* Skip-State for every stale observation that was not displaced in the slot.
C24_SkipsFetchedStale ==
    (Returned("c1", "send_and_recv") /\ caller["c1"].my_sequence = 1) =>
        /\ caller["c1"].skips = StaleEmitted - Cardinality(StaleDisplaced)
        /\ caller["c1"].state.last_action_sequence >= 1

\* C24 witness: the call returned after one Skip-State; the other stale
\* observations were displaced.
C24_Witness ==
    /\ Returned("c1", "send_and_recv")
    /\ caller["c1"].my_sequence = 1
    /\ caller["c1"].skips = 1
    /\ Cardinality(StaleDisplaced) = StaleEmitted - 1

\* C25: with one calling thread the i-th call assigns sequence i, and with an
\* echoing peer the i-th call, if it is a send_and_recv, returns an
\* observation with last_action_sequence = i.
C25_SequencesFromOne ==
    /\ assigned = [i \in 1..Len(assigned) |-> i]
    /\ Returned("c1", "send_and_recv") =>
          /\ caller["c1"].my_sequence = Len(assigned)
          /\ caller["c1"].state.last_action_sequence = Len(assigned)

\* C25 witness: the second call, a send_and_recv, returned after the first
\* observation fetched, which echoed 1, was skipped.
C25_Witness ==
    /\ Returned("c1", "send_and_recv")
    /\ Len(assigned) = 2
    /\ caller["c1"].skips >= 1
    /\ caller["c1"].state.last_action_sequence = 2

\* C26: after the recv that reports the terminated context the StateThread
\* calls recv on the closed transport no more.
C26_ExitsOnTeardown == conn.terminated <= 1

\* C27: an observation returned to the caller whose payload did not carry
\* cursor_mode = CURSOR_DISABLED, because it carried CURSOR_NORMAL or no
\* cursor_mode at all, is one get_frame_with_cursor treats as normal mode.
C27_MissingCursorModeIsNormal ==
    \A t \in AllCallers :
        (/\ Returned(t, "recv_state")
         /\ caller[t].state.cursor_mode # PyInt(GLFW_CURSOR_DISABLED)) =>
            GetFrameWithCursor(caller[t].state)

\* C28: from the second return of recv_state on, the drops reported for step
\* Process equal the number of values put discarded since the previous
\* return of recv_state.
C28_DiscardsSinceReturn ==
    \A i \in DOMAIN drops.reports :
        i > 1 => drops.reports[i].n_dropped = drops.reports[i].since_return

\* C28 amended: they equal the number of values put discarded between the
\* get of the previous recv_state call and the get of this one.
C28_DiscardsBetweenGets ==
    \A i \in DOMAIN drops.reports :
        i > 1 => drops.reports[i].n_dropped = drops.reports[i].between_gets

\* C28 witness: the second recv_state reported two drops, for two values
\* discarded between the two gets, one of them before the first call returned.
C28_Witness ==
    /\ Len(drops.reports) = 2
    /\ drops.reports[2].n_dropped = 2
    /\ drops.reports[2].between_gets = 2
    /\ drops.reports[2].since_return = 1

\* C29: with strictly increasing sequences, whenever both counters are set,
\* state_sequence_last_processed <= state_sequence_last_received.
C29_ProcessedNotAheadOfReceived ==
    (state_sequence_last_processed # None /\ state_sequence_last_received # None)
        => state_sequence_last_processed <= state_sequence_last_received

\* C29 witness: recv_state has returned twice and the caller has processed
\* the very observation the StateThread recorded last.
C29_Witness ==
    /\ Len(drops.reports) >= 2
    /\ state_sequence_last_processed # None
    /\ state_sequence_last_processed = state_sequence_last_received

\* C30: while observations keep arriving, a caller blocked in recv_state
\* eventually returns.
C30_BlockedCallerReturns ==
    (pc["c1"] = "rs_get") ~> (pc["c1"] = "idle" /\ Returned("c1", "recv_state"))

\* C31: in front of a peer that applies every action and keeps reporting the
\* largest sequence applied, every send_and_recv call eventually returns.
C31_SendAndRecvReturns ==
    (caller["c1"].op = "send_and_recv" /\ pc["c1"] # "idle")
        ~> (pc["c1"] = "idle" /\ Returned("c1", "send_and_recv"))

\* What _track_dropped logged, in order, for one of its callers: no drop for
\* the first observation, for one whose sequence is not above the one before
\* it, and for one whose sequence is one above the one before it.
ResumesCounting(reports) ==
    \A i \in DOMAIN reports :
        (\/ i = 1
         \/ reports[i].sequence <= reports[i - 1].sequence
         \/ reports[i].sequence = reports[i - 1].sequence + 1)
            => reports[i].n_dropped = 0

\* The sequence tracked is the one of the last observation, lower or not.
TracksLast(reports, last_sequence) ==
    reports # <<>> => last_sequence = reports[Len(reports)].sequence

\* C32: an observation whose sequence is not above the tracked one reports no
\* drop and replaces the tracked sequence, and the next observation one above
\* it reports no drop, for the StateThread and for recv_state.
C32_RestartResumesCounting ==
    /\ ResumesCounting(drops.reports)
    /\ ResumesCounting(drops.recv_reports)
    /\ TracksLast(drops.reports, state_sequence_last_processed)
    /\ TracksLast(drops.recv_reports, state_sequence_last_received)

\* C32 witness: recv_state returned an observation with a sequence below the
\* one before it, and then the observation one above that.
C32_Witness ==
    /\ Len(drops.reports) >= 3
    /\ \E i \in 2..(Len(drops.reports) - 1) :
          /\ drops.reports[i].sequence < drops.reports[i - 1].sequence
          /\ drops.reports[i + 1].sequence = drops.reports[i].sequence + 1
          /\ state_sequence_last_processed < drops.reports[i - 1].sequence

\* C33: Launcher(instance_id) succeeds with the recorded version for an
\* instance whose install completed, and raises ValueError only for an
\* instance that was never installed.
C33_LaunchesInstalled ==
    launcher.called =>
        IF launcher.recorded # Absent
          THEN ~launcher.raised /\ launcher.mc_version = launcher.recorded
          ELSE launcher.raised

\* C34: the config file holds every instance installed so far, and an
\* Installer constructed for an instance the file records raised ValueError.
C34_ConfigKeepsInstances ==
    /\ \A i \in InstanceIds :
          installed[i] # Absent =>
              config_file.exists /\ config_file.instances[i] = installed[i]
    /\ \A o \in Installers :
          installer[o].recorded => installer[o].state = "ValueError"

====
